---- MODULE Spec2Model ----
(***************************************************************************)
(* Model of src/pack.ts: the FormatEmbedding, GenerateEmbedding and        *)
(* CosineSimilarity formulas of the pack, with the helper                  *)
(* generateEmbedding and the JSON.stringify / JSON.parse conversions they  *)
(* rely on.                                                                *)
(*                                                                         *)
(* JavaScript values are tagged records.  A string is a sequence of        *)
(* one-character strings, so that quoting and parsing work on characters.  *)
(* A number is an integer plus a flag for negative zero, which             *)
(* JSON.stringify prints as "0".  An object is the sequence of its         *)
(* members in insertion order.                                             *)
(***************************************************************************)
EXTENDS Integers, Sequences, FiniteSets, TLC

(* ----------------------------- bounds --------------------------------- *)
MaxTextLen == 1      \* length of the text argument of GenerateEmbedding
MaxEmbLen == 2       \* length of an embedding vector in a provider response
MaxInputLen == 3     \* length of an arbitrary FormatEmbedding input
MaxVecLen == 3       \* length of a CosineSimilarity argument
MaxCoord == 1        \* largest absolute value of a vector component

(* --------------------------- JS values -------------------------------- *)
Undef == [t |-> "undefined"]
Null == [t |-> "null"]
Bool(b) == [t |-> "boolean", v |-> b]
Num(n) == [t |-> "number", v |-> n, neg0 |-> FALSE]
NegZero == [t |-> "number", v |-> 0, neg0 |-> TRUE]
Str(s) == [t |-> "string", v |-> s]
Arr(a) == [t |-> "array", v |-> a]
Obj(m) == [t |-> "object", v |-> m]
Member(k, x) == [k |-> k, x |-> x]

\* ToBoolean, as used by `!x` and `x || y`
Truthy(x) ==
  CASE x.t = "undefined" -> FALSE
    [] x.t = "null" -> FALSE
    [] x.t = "boolean" -> x.v
    [] x.t = "number" -> x.v # 0
    [] x.t = "string" -> Len(x.v) > 0
    [] OTHER -> TRUE

\* reading a property of undefined or null raises a TypeError
Nullish(x) == x.t \in {"undefined", "null"}

RECURSIVE Lookup(_, _, _)
Lookup(m, k, i) ==
  IF i > Len(m) THEN Undef
  ELSE IF m[i].k = k THEN m[i].x
  ELSE Lookup(m, k, i + 1)

\* x.k for a non-nullish x (own data properties of plain objects only)
Get(x, k) == IF x.t = "object" THEN Lookup(x.v, k, 1) ELSE Undef

HasKey(x, k) == x.t = "object" /\ \E i \in 1..Len(x.v) : x.v[i].k = k

\* x === y on primitives: -0 === 0, and values of different types differ
StrictEq(x, y) ==
  /\ x.t = y.t
  /\ CASE x.t = "number" -> x.v = y.v
       [] x.t = "string" -> x.v = y.v
       [] x.t = "boolean" -> x.v = y.v
       [] OTHER -> TRUE

\* Object.is on primitives: as ===, but -0 and 0 differ
SameValue(x, y) ==
  /\ StrictEq(x, y)
  /\ x.t = "number" => x.neg0 = y.neg0

(* ------------------------ Number::toString ---------------------------- *)
DigitChars == <<"0", "1", "2", "3", "4", "5", "6", "7", "8", "9">>

RECURSIVE NatToString(_)
NatToString(n) ==
  IF n < 10 THEN <<DigitChars[n + 1]>>
  ELSE NatToString(n \div 10) \o <<DigitChars[(n % 10) + 1]>>

\* -0 prints as "0"
NumberToString(x) ==
  IF x.v < 0 THEN <<"-">> \o NatToString(0 - x.v) ELSE NatToString(x.v)

\* String(x)
String(x) ==
  CASE x.t = "undefined" -> <<"u", "n", "d", "e", "f", "i", "n", "e", "d">>
    [] x.t = "null" -> <<"n", "u", "l", "l">>
    [] x.t = "number" -> NumberToString(x)
    [] x.t = "string" -> x.v
    [] x.t = "boolean" ->
         IF x.v THEN <<"t", "r", "u", "e">> ELSE <<"f", "a", "l", "s", "e">>
    [] OTHER -> <<"[", "o", "b", "j", "e", "c", "t", "]">>

(* -------------------------- JSON.stringify ---------------------------- *)
\* variant: the double quote is not escaped
QuoteChar_rawQuote(c) ==
  CASE c = "\\" -> <<"\\", "\\">>
    [] c = "\n" -> <<"\\", "n">>
    [] OTHER -> <<c>>

\* QuoteJSONString on one character
QuoteChar(c) ==
  CASE c = "\"" -> <<"\\", "\"">>
    [] c = "\\" -> <<"\\", "\\">>
    [] c = "\n" -> <<"\\", "n">>
    [] c = "\t" -> <<"\\", "t">>
    [] c = "\r" -> <<"\\", "r">>
    [] c = "\f" -> <<"\\", "f">>
    [] c = "\\b" -> <<"\\", "b">>
    [] OTHER -> <<c>>

RECURSIVE QuoteChars(_, _)
QuoteChars(s, i) ==
  IF i > Len(s) THEN <<>> ELSE QuoteChar(s[i]) \o QuoteChars(s, i + 1)

QuoteJSONString(s) == <<"\"">> \o QuoteChars(s, 1) \o <<"\"">>

RECURSIVE SerializeJSONProperty(_)
RECURSIVE SerializeJSONArray(_, _)
RECURSIVE SerializeJSONObject(_, _, _)

\* the text of a value that is not undefined
SerializeJSONProperty(x) ==
  CASE x.t = "null" -> <<"n", "u", "l", "l">>
    [] x.t = "boolean" -> String(x)
    [] x.t = "number" -> NumberToString(x)
    [] x.t = "string" -> QuoteJSONString(x.v)
    [] x.t = "array" -> <<"[">> \o SerializeJSONArray(x.v, 1) \o <<"]">>
    [] x.t = "object" -> <<"{">> \o SerializeJSONObject(x.v, 1, TRUE) \o <<"}">>

\* an undefined element of an array is written as null
SerializeJSONArray(a, i) ==
  IF i > Len(a) THEN <<>>
  ELSE (IF i > 1 THEN <<",">> ELSE <<>>)
       \o (IF a[i].t = "undefined" THEN <<"n", "u", "l", "l">>
           ELSE SerializeJSONProperty(a[i]))
       \o SerializeJSONArray(a, i + 1)

\* a member whose value is undefined is left out
SerializeJSONObject(m, i, first) ==
  IF i > Len(m) THEN <<>>
  ELSE IF m[i].x.t = "undefined" THEN SerializeJSONObject(m, i + 1, first)
  ELSE (IF first THEN <<>> ELSE <<",">>)
       \o QuoteJSONString(m[i].k) \o <<":">> \o SerializeJSONProperty(m[i].x)
       \o SerializeJSONObject(m, i + 1, FALSE)

\* JSON.stringify(x): undefined for undefined, else a string
JSONStringify(x) ==
  IF x.t = "undefined" THEN Undef ELSE Str(SerializeJSONProperty(x))

(* ---------------------------- JSON.parse ------------------------------ *)
Fail(i) == [ok |-> FALSE, val |-> Undef, pos |-> i]
Ok(x, i) == [ok |-> TRUE, val |-> x, pos |-> i]

WhiteSpace == {" ", "\t", "\n", "\r"}
ControlChars == {"\t", "\n", "\r", "\f", "\\b"}
Digits == {"0", "1", "2", "3", "4", "5", "6", "7", "8", "9"}
HexDigits == Digits \cup {"a", "b", "c", "d", "e", "f", "A", "B", "C", "D", "E", "F"}
DigitVal(c) == CHOOSE d \in 0..9 : DigitChars[d + 1] = c

RECURSIVE SkipWs(_, _)
SkipWs(s, i) ==
  IF i <= Len(s) /\ s[i] \in WhiteSpace THEN SkipWs(s, i + 1) ELSE i

\* does the text w start at position i of s
RECURSIVE StartsWith(_, _, _, _)
StartsWith(s, i, w, j) ==
  IF j > Len(w) THEN TRUE
  ELSE IF i > Len(s) \/ s[i] # w[j] THEN FALSE
  ELSE StartsWith(s, i + 1, w, j + 1)

\* the character a \uXXXX escape denotes
UnicodeChar(h) ==
  CASE h = <<"0", "0", "2", "2">> -> "\""
    [] h \in {<<"0", "0", "5", "c">>, <<"0", "0", "5", "C">>} -> "\\"
    [] h \in {<<"0", "0", "0", "a">>, <<"0", "0", "0", "A">>} -> "\n"
    [] h = <<"0", "0", "6", "1">> -> "a"
    [] OTHER -> "\\u" \o h[1] \o h[2] \o h[3] \o h[4]

\* the character a one-letter escape denotes
EscapeChar(c) ==
  CASE c = "n" -> "\n"
    [] c = "t" -> "\t"
    [] c = "r" -> "\r"
    [] c = "f" -> "\f"
    [] c = "b" -> "\\b"
    [] OTHER -> c

\* the characters of a string literal, from position i, after the opening quote
RECURSIVE ParseChars(_, _, _)
ParseChars(s, i, acc) ==
  IF i > Len(s) THEN Fail(i)
  ELSE IF s[i] = "\"" THEN Ok(Str(acc), i + 1)
  ELSE IF s[i] \in ControlChars THEN Fail(i)
  ELSE IF s[i] = "\\" THEN
    IF i + 1 > Len(s) THEN Fail(i)
    ELSE IF s[i + 1] \in {"\"", "\\", "/", "b", "f", "n", "r", "t"}
      THEN ParseChars(s, i + 2, Append(acc, EscapeChar(s[i + 1])))
    ELSE IF /\ s[i + 1] = "u"
            /\ i + 5 <= Len(s)
            /\ \A j \in (i + 2)..(i + 5) : s[j] \in HexDigits
      THEN ParseChars(s, i + 6,
                      Append(acc, UnicodeChar(SubSeq(s, i + 2, i + 5))))
    ELSE Fail(i)
  ELSE ParseChars(s, i + 1, Append(acc, s[i]))

ParseString(s, i) ==
  IF i <= Len(s) /\ s[i] = "\"" THEN ParseChars(s, i + 1, <<>>) ELSE Fail(i)

RECURSIVE ParseDigits(_, _, _)
ParseDigits(s, i, n) ==
  IF i <= Len(s) /\ s[i] \in Digits
    THEN ParseDigits(s, i + 1, 10 * n + DigitVal(s[i]))
    ELSE [val |-> n, pos |-> i]

\* an integer literal: -? (0 | [1-9][0-9]*); a leading zero ends the number.
\* Fractions and exponents are not in the alphabet of the modelled texts.
ParseNumber(s, i) ==
  LET neg == i <= Len(s) /\ s[i] = "-"
      j == IF neg THEN i + 1 ELSE i
  IN IF j > Len(s) \/ s[j] \notin Digits THEN Fail(i)
     ELSE IF s[j] = "0" THEN Ok(IF neg THEN NegZero ELSE Num(0), j + 1)
     ELSE LET d == ParseDigits(s, j, 0)
          IN Ok(Num(IF neg THEN 0 - d.val ELSE d.val), d.pos)

\* CreateDataProperty: a repeated key keeps its place and takes the new value
RECURSIVE SetMember(_, _, _, _)
SetMember(m, k, x, i) ==
  IF i > Len(m) THEN Append(m, Member(k, x))
  ELSE IF m[i].k = k THEN [m EXCEPT ![i] = Member(k, x)]
  ELSE SetMember(m, k, x, i + 1)

RECURSIVE ParseValue(_, _)
RECURSIVE ParseElements(_, _, _)
RECURSIVE ParseMembers(_, _, _)

ParseValue(s, i) ==
  IF i > Len(s) THEN Fail(i)
  ELSE CASE s[i] = "{" ->
              LET j == SkipWs(s, i + 1)
              IN IF j <= Len(s) /\ s[j] = "}" THEN Ok(Obj(<<>>), j + 1)
                 ELSE ParseMembers(s, j, <<>>)
         [] s[i] = "[" ->
              LET j == SkipWs(s, i + 1)
              IN IF j <= Len(s) /\ s[j] = "]" THEN Ok(Arr(<<>>), j + 1)
                 ELSE ParseElements(s, j, <<>>)
         [] s[i] = "\"" -> ParseString(s, i)
         [] s[i] = "-" \/ s[i] \in Digits -> ParseNumber(s, i)
         [] s[i] = "n" ->
              IF StartsWith(s, i, <<"n", "u", "l", "l">>, 1)
                THEN Ok(Null, i + 4) ELSE Fail(i)
         [] s[i] = "t" ->
              IF StartsWith(s, i, <<"t", "r", "u", "e">>, 1)
                THEN Ok(Bool(TRUE), i + 4) ELSE Fail(i)
         [] s[i] = "f" ->
              IF StartsWith(s, i, <<"f", "a", "l", "s", "e">>, 1)
                THEN Ok(Bool(FALSE), i + 5) ELSE Fail(i)
         [] OTHER -> Fail(i)

\* value (ws , ws value)* ws ], from the first value at position i
ParseElements(s, i, acc) ==
  LET r == ParseValue(s, i)
  IN IF ~r.ok THEN r
     ELSE LET j == SkipWs(s, r.pos)
              a == Append(acc, r.val)
          IN IF j > Len(s) THEN Fail(j)
             ELSE IF s[j] = "]" THEN Ok(Arr(a), j + 1)
             ELSE IF s[j] = "," THEN ParseElements(s, SkipWs(s, j + 1), a)
             ELSE Fail(j)

\* string ws : ws value (ws , ws member)* ws }, from the key at position i
ParseMembers(s, i, acc) ==
  LET k == ParseString(s, i)
  IN IF ~k.ok THEN k
     ELSE LET c == SkipWs(s, k.pos)
          IN IF c > Len(s) \/ s[c] # ":" THEN Fail(c)
             ELSE LET r == ParseValue(s, SkipWs(s, c + 1))
                  IN IF ~r.ok THEN r
                     ELSE LET j == SkipWs(s, r.pos)
                              m == SetMember(acc, k.val.v, r.val, 1)
                          IN IF j > Len(s) THEN Fail(j)
                             ELSE IF s[j] = "}" THEN Ok(Obj(m), j + 1)
                             ELSE IF s[j] = ","
                               THEN ParseMembers(s, SkipWs(s, j + 1), m)
                             ELSE Fail(j)

\* JSON.parse(s): ok = FALSE stands for the SyntaxError it throws
JSONParse(s) ==
  LET r == ParseValue(s, SkipWs(s, 1))
  IN IF r.ok /\ SkipWs(s, r.pos) = Len(s) + 1
       THEN [ok |-> TRUE, val |-> r.val]
       ELSE [ok |-> FALSE, val |-> Undef]

(* --------------------- constants of src/pack.ts ----------------------- *)
K_id == <<"i", "d">>
K_input == <<"i", "n", "p", "u", "t">>
K_embedding == <<"e", "m", "b", "e", "d", "d", "i", "n", "g">>
K_formatted == <<"f", "o", "r", "m", "a", "t", "t", "e", "d">>
K_model == <<"m", "o", "d", "e", "l">>
K_prompt_tokens ==
  <<"p", "r", "o", "m", "p", "t", "_", "t", "o", "k", "e", "n", "s">>
K_total_tokens ==
  <<"t", "o", "t", "a", "l", "_", "t", "o", "k", "e", "n", "s">>
K_data == <<"d", "a", "t", "a">>
K_error == <<"e", "r", "r", "o", "r">>
K_message == <<"m", "e", "s", "s", "a", "g", "e">>
K_usage == <<"u", "s", "a", "g", "e">>
K_index == <<"i", "n", "d", "e", "x">>

DefaultModel ==
  <<"t", "e", "x", "t", "-", "e", "m", "b", "e", "d", "d", "i", "n", "g",
      "-", "3", "-", "s", "m", "a", "l", "l">>
LargeModel ==
  <<"t", "e", "x", "t", "-", "e", "m", "b", "e", "d", "d", "i", "n", "g",
      "-", "3", "-", "l", "a", "r", "g", "e">>
EmbeddingObject ==
  <<"E", "m", "b", "e", "d", "d", "i", "n", "g", " ", "O", "b", "j", "e",
      "c", "t">>
NoData ==
  <<"N", "o", " ", "d", "a", "t", "a">>
InvalidJSON ==
  <<"I", "n", "v", "a", "l", "i", "d", " ", "e", "m", "b", "e", "d", "d",
      "i", "n", "g", " ", "r", "e", "c", "o", "r", "d", " ", "J", "S", "O",
      "N">>
FailedMessage ==
  <<"F", "a", "i", "l", "e", "d", " ", "t", "o", " ", "g", "e", "n", "e",
      "r", "a", "t", "e", " ", "e", "m", "b", "e", "d", "d", "i", "n", "g">>
NoEmbeddingMessage ==
  <<"N", "o", " ", "e", "m", "b", "e", "d", "d", "i", "n", "g", " ", "r",
      "e", "t", "u", "r", "n", "e", "d", " ", "f", "r", "o", "m", " ", "O",
      "p", "e", "n", "A", "I">>
LengthMessage ==
  <<"B", "o", "t", "h", " ", "e", "m", "b", "e", "d", "d", "i", "n", "g",
      "s", " ", "m", "u", "s", "t", " ", "b", "e", " ", "o", "f", " ", "t",
      "h", "e", " ", "s", "a", "m", "e", " ", "l", "e", "n", "g", "t", "h",
      ".">>
\* the engine's message for a property read on undefined
TypeErrorMessage ==
  <<"C", "a", "n", "n", "o", "t", " ", "r", "e", "a", "d", " ", "p", "r",
      "o", "p", "e", "r", "t", "i", "e", "s", " ", "o", "f", " ", "u", "n",
      "d", "e", "f", "i", "n", "e", "d">>
EmbeddingsUrl == "https://api.openai.com/v1/embeddings"

(* ----------------------------- outcomes ------------------------------- *)
Pending == [kind |-> "pending", val |-> Undef, name |-> "", message |-> <<>>]
Return(x) == [kind |-> "return", val |-> x, name |-> "", message |-> <<>>]
Throw(n, m) == [kind |-> "throw", val |-> Undef, name |-> n, message |-> m]

(* -------------------------- FormatEmbedding --------------------------- *)
EmptySentinel ==
  Obj(<<Member(K_id, Str(<<>>)), Member(K_input, Str(<<>>)),
        Member(K_embedding, Arr(<<>>)), Member(K_formatted, Str(NoData)),
        Member(K_model, Str(<<>>)), Member(K_prompt_tokens, Num(0)),
        Member(K_total_tokens, Num(0))>>)

InvalidSentinel ==
  Obj(<<Member(K_id, Str(<<>>)), Member(K_input, Str(<<>>)),
        Member(K_embedding, Arr(<<>>)), Member(K_formatted, Str(InvalidJSON)),
        Member(K_model, Str(<<>>)), Member(K_prompt_tokens, Num(0)),
        Member(K_total_tokens, Num(0))>>)

\* variant: the SyntaxError of JSON.parse is not caught
TryParse_uncaught(s) ==
  LET r == JSONParse(s)
  IN IF r.ok THEN Return(r.val) ELSE Throw("SyntaxError", <<>>)

\* try { return JSON.parse(s) } catch (e) { return the invalid sentinel }
TryParse(s) ==
  LET r == JSONParse(s)
  IN IF r.ok THEN Return(r.val) ELSE Return(InvalidSentinel)

\* variant: only undefined and null count as absent, the empty string not
IsAbsent_nullishOnly(x) == Nullish(x)

\* if (!embeddingRecordStr) return the empty sentinel
IsAbsent(x) == ~Truthy(x)

FormatEmbedding(embeddingRecordStr) ==
  IF IsAbsent(embeddingRecordStr) THEN Return(EmptySentinel)
  ELSE TryParse(embeddingRecordStr.v)

(* ------------------------- generateEmbedding -------------------------- *)
\* the request handed to context.fetcher.fetch
FetchRequest(text, model) ==
  [method |-> "POST",
   url |-> EmbeddingsUrl,
   headers |-> <<[k |-> "Content-Type", x |-> "application/json"]>>,
   body |-> JSONStringify(Obj(<<Member(K_input, text),
                                Member(K_model, model)>>))]

\* data.error?.message || 'Failed to generate embedding', for a data that
\* is neither undefined nor null
ErrorMessage(data) ==
  LET e == Get(data, K_error)
      m == IF Nullish(e) THEN Undef ELSE Get(e, K_message)
  IN IF Truthy(m) THEN String(m) ELSE FailedMessage

\* x.length
Length(x) ==
  IF x.t \in {"array", "string"} THEN Num(Len(x.v)) ELSE Get(x, <<"l", "e", "n", "g", "t", "h">>)

\* variant: the last entry of the list instead of the first
First_last(x) ==
  IF x.t = "array" /\ Len(x.v) > 0 THEN x.v[Len(x.v)] ELSE Undef

\* x[0]
First(x) ==
  IF x.t = "array" /\ Len(x.v) > 0 THEN x.v[1] ELSE Undef

\* x || 0
OrZero(x) == IF Truthy(x) THEN x ELSE Num(0)

\* data.usage?.k || 0
UsageFigure(data, k) ==
  LET u == Get(data, K_usage)
  IN OrZero(IF Nullish(u) THEN Undef ELSE Get(u, k))

\* the record built at the end of generateEmbedding
BuildRecord(text, data) ==
  LET embeddingObj == First(Get(data, K_data))
  IN Obj(<<Member(K_id, Str(String(Get(embeddingObj, K_index)))),
           Member(K_input, text),
           Member(K_embedding, Get(embeddingObj, K_embedding)),
           Member(K_formatted, Str(EmbeddingObject)),
           Member(K_model, Get(data, K_model)),
           Member(K_prompt_tokens, UsageFigure(data, K_prompt_tokens)),
           Member(K_total_tokens, UsageFigure(data, K_total_tokens))>>)

\* variant: only an absent list is rejected, an empty one is not
NoEmbedding_absentOnly(data) == ~Truthy(Get(data, K_data))

\* !data.data || data.data.length === 0
NoEmbedding(data) ==
  \/ ~Truthy(Get(data, K_data))
  \/ StrictEq(Length(Get(data, K_data)), Num(0))

\* generateEmbedding from the point where the awaited fetch has returned
generateEmbedding(text, response) ==
  LET data == response.body
  IN IF response.status # 200 THEN
       IF Nullish(data) THEN Throw("TypeError", TypeErrorMessage)
       ELSE Throw("Error", ErrorMessage(data))
     ELSE IF Nullish(data) THEN Throw("TypeError", TypeErrorMessage)
     ELSE IF NoEmbedding(data) THEN Throw("Error", NoEmbeddingMessage)
     ELSE IF Nullish(First(Get(data, K_data)))
       THEN Throw("TypeError", TypeErrorMessage)
     ELSE Return(BuildRecord(text, data))

\* let [text, model = 'text-embedding-3-small'] = args
ModelOrDefault(model) == IF model.t = "undefined" THEN Str(DefaultModel) ELSE model

\* GenerateEmbedding.execute after generateEmbedding has settled
GenerateEmbeddingResult(result) ==
  IF result.kind = "throw" THEN result ELSE Return(JSONStringify(result.val))

(* ------------------- IEEE 754 double arithmetic ----------------------- *)
(* A natural number of any size is the sequence of its digits in base     *)
(* 2^LimbBits, least significant first, without leading zeros.  A double  *)
(* is sign * m * 2^e with m of exactly 53 bits, or zero with m = <<>>.     *)
LimbBits == 14
Base == 2 ^ LimbBits
MantissaBits == 53
GuardBits == 60

RECURSIVE BigTrim(_)
BigTrim(x) ==
  IF Len(x) > 0 /\ x[Len(x)] = 0 THEN BigTrim(SubSeq(x, 1, Len(x) - 1)) ELSE x

RECURSIVE BigOfInt(_)
BigOfInt(n) == IF n = 0 THEN <<>> ELSE <<n % Base>> \o BigOfInt(n \div Base)

Limb(x, i) == IF i <= Len(x) THEN x[i] ELSE 0

RECURSIVE BigAddFrom(_, _, _, _)
BigAddFrom(x, y, i, carry) ==
  IF i > Len(x) /\ i > Len(y) THEN (IF carry = 0 THEN <<>> ELSE <<carry>>)
  ELSE LET s == Limb(x, i) + Limb(y, i) + carry
       IN <<s % Base>> \o BigAddFrom(x, y, i + 1, s \div Base)

BigAdd(x, y) == BigAddFrom(x, y, 1, 0)

\* x - y for x >= y
RECURSIVE BigSubFrom(_, _, _, _)
BigSubFrom(x, y, i, borrow) ==
  IF i > Len(x) THEN <<>>
  ELSE LET s == x[i] - Limb(y, i) - borrow
       IN <<IF s < 0 THEN s + Base ELSE s>>
          \o BigSubFrom(x, y, i + 1, IF s < 0 THEN 1 ELSE 0)

BigSub(x, y) == BigTrim(BigSubFrom(x, y, 1, 0))

RECURSIVE BigCmpFrom(_, _, _)
BigCmpFrom(x, y, i) ==
  IF i = 0 THEN 0
  ELSE IF x[i] < y[i] THEN 0 - 1
  ELSE IF x[i] > y[i] THEN 1
  ELSE BigCmpFrom(x, y, i - 1)

\* -1, 0 or 1 as x is less than, equal to or greater than y
BigCmp(x, y) ==
  IF Len(x) < Len(y) THEN 0 - 1
  ELSE IF Len(x) > Len(y) THEN 1
  ELSE BigCmpFrom(x, y, Len(x))

RECURSIVE BigMulSmallFrom(_, _, _, _)
BigMulSmallFrom(x, k, i, carry) ==
  IF i > Len(x) THEN (IF carry = 0 THEN <<>> ELSE <<carry>>)
  ELSE LET s == x[i] * k + carry
       IN <<s % Base>> \o BigMulSmallFrom(x, k, i + 1, s \div Base)

\* x * k for 0 <= k < Base
BigMulSmall(x, k) == IF k = 0 THEN <<>> ELSE BigMulSmallFrom(x, k, 1, 0)

RECURSIVE BigMulFrom(_, _, _)
BigMulFrom(x, y, i) ==
  IF i > Len(y) THEN <<>>
  ELSE BigAdd(BigMulSmall(x, y[i]), <<0>> \o BigMulFrom(x, y, i + 1))

BigMul(x, y) == BigTrim(BigMulFrom(x, y, 1))

RECURSIVE BigDivSmallFrom(_, _, _, _)
BigDivSmallFrom(x, k, i, rem) ==
  IF i = 0 THEN <<>>
  ELSE LET cur == rem * Base + x[i]
       IN BigDivSmallFrom(x, k, i - 1, cur % k) \o <<cur \div k>>

\* floor(x / k) for 0 < k <= Base
BigDivSmall(x, k) == BigTrim(BigDivSmallFrom(x, k, Len(x), 0))

\* x * 2^k
BigShl(x, k) ==
  IF Len(x) = 0 THEN <<>>
  ELSE [i \in 1..(k \div LimbBits) |-> 0] \o BigMulSmall(x, 2 ^ (k % LimbBits))

\* floor(x / 2^k)
BigShr(x, k) ==
  IF Len(x) <= k \div LimbBits THEN <<>>
  ELSE BigDivSmall(SubSeq(x, (k \div LimbBits) + 1, Len(x)), 2 ^ (k % LimbBits))

RECURSIVE SmallBitLen(_)
SmallBitLen(n) == IF n = 0 THEN 0 ELSE 1 + SmallBitLen(n \div 2)

BigBitLen(x) ==
  IF Len(x) = 0 THEN 0 ELSE (Len(x) - 1) * LimbBits + SmallBitLen(x[Len(x)])

BigIsOdd(x) == Len(x) > 0 /\ x[1] % 2 = 1

RECURSIVE SmallQuot(_, _, _, _)
\* the largest t in lo..hi with t * y <= r, given lo * y <= r
SmallQuot(r, y, lo, hi) ==
  IF lo = hi THEN lo
  ELSE LET mid == (lo + hi + 1) \div 2
       IN IF BigCmp(BigMulSmall(y, mid), r) <= 0
            THEN SmallQuot(r, y, mid, hi)
            ELSE SmallQuot(r, y, lo, mid - 1)

\* quotient and remainder of x by y > 0, DivRadix digits at a time
DivRadix == 2 ^ 7
RECURSIVE BigDivMod(_, _)
BigDivMod(x, y) ==
  IF BigCmp(x, y) < 0 THEN [q |-> <<>>, r |-> x]
  ELSE LET h == BigDivMod(x, BigMulSmall(y, DivRadix))
           t == SmallQuot(h.r, y, 0, DivRadix - 1)
       IN [q |-> BigAdd(BigMulSmall(h.q, DivRadix), BigOfInt(t)),
           r |-> BigSub(h.r, BigMulSmall(y, t))]

\* Newton's iteration from r >= sqrt(x), down to the floor of sqrt(x)
RECURSIVE Newton(_, _)
Newton(x, r) ==
  LET n == BigShr(BigAdd(r, BigDivMod(x, r).q), 1)
  IN IF BigCmp(n, r) >= 0 THEN r ELSE Newton(x, n)

\* floor of the square root of x
BigSqrt(x) ==
  IF Len(x) = 0 THEN <<>>
  ELSE Newton(x, BigShl(<<1>>, (BigBitLen(x) + 1) \div 2))

FloatZero == [sign |-> 1, m |-> <<>>, e |-> 0]

\* the values that are not numbers of the form sign * m * 2^e
FloatNaN == [sign |-> 0, m |-> <<>>, e |-> 0]

FloatInfinity(sign) == [sign |-> sign, m |-> <<>>, e |-> 1]

\* the double nearest to sign * (n + f) * 2^e, ties to even, where n > 0 and
\* 0 <= f < 1 with f > 0 exactly when sticky; n has more than 54 bits
\* whenever sticky holds
RoundFloat(sign, n, e, sticky) ==
  LET len == BigBitLen(n)
  IN IF len <= MantissaBits
       THEN [sign |-> sign, m |-> BigShl(n, MantissaBits - len),
             e |-> e - (MantissaBits - len)]
       ELSE LET shift == len - MantissaBits
                q == BigShr(n, shift)
                c == BigCmp(BigSub(n, BigShl(q, shift)),
                            BigShl(<<1>>, shift - 1))
                up == c > 0 \/ (c = 0 /\ (sticky \/ BigIsOdd(q)))
                m == IF up THEN BigAdd(q, <<1>>) ELSE q
            IN IF BigBitLen(m) > MantissaBits
                 THEN [sign |-> sign, m |-> BigShr(m, 1), e |-> e + shift + 1]
                 ELSE [sign |-> sign, m |-> m, e |-> e + shift]

\* the double of an integer
FloatOfInt(d) ==
  IF d = 0 THEN FloatZero
  ELSE RoundFloat(IF d < 0 THEN 0 - 1 ELSE 1,
                  BigOfInt(IF d < 0 THEN 0 - d ELSE d), 0, FALSE)

\* Math.sqrt of a positive integer, correctly rounded
FloatSqrt(n) ==
  IF n = 0 THEN FloatZero
  ELSE LET x == BigShl(BigOfInt(n), 2 * GuardBits)
           r == BigSqrt(x)
       IN RoundFloat(1, r, 0 - GuardBits, BigMul(r, r) # x)

\* x * y
FloatMul(x, y) ==
  IF Len(x.m) = 0 \/ Len(y.m) = 0 THEN FloatZero
  ELSE RoundFloat(x.sign * y.sign, BigMul(x.m, y.m), x.e + y.e, FALSE)

\* x / y for finite x and y >= 0: 0 / 0 is NaN and x / 0 is an infinity
FloatDiv(x, y) ==
  IF Len(y.m) = 0
    THEN (IF Len(x.m) = 0 THEN FloatNaN ELSE FloatInfinity(x.sign))
  ELSE IF Len(x.m) = 0 THEN FloatZero
  ELSE LET d == BigDivMod(BigShl(x.m, GuardBits), y.m)
       IN RoundFloat(x.sign * y.sign, d.q, x.e - GuardBits - y.e,
                     Len(d.r) > 0)

(* ------------------------- CosineSimilarity --------------------------- *)
\* the sum of a[i] * b[i] over the loop for (i = 0; i < a.length; i++)
RECURSIVE SumProducts(_, _, _)
SumProducts(a, b, i) ==
  IF i > Len(a) THEN 0 ELSE a[i] * b[i] + SumProducts(a, b, i + 1)

\* CosineSimilarity arguments
SeqsUpTo(S, n) == UNION {[1..k -> S] : k \in 0..n}
Coords == (0 - MaxCoord)..MaxCoord
CosineVectors == SeqsUpTo(Coords, MaxVecLen)

\* the sums the loop can leave in dotProduct, normA and normB
LoopResults ==
  UNION {{<<SumProducts(a, b, 1), SumProducts(a, a, 1),
            SumProducts(b, b, 1)>> :
            b \in {c \in CosineVectors : Len(c) = Len(a)}} :
         a \in CosineVectors}

\* Math.sqrt(n), computed once for every norm
SqrtTable == [n \in {r[2] : r \in LoopResults} |-> FloatSqrt(n)]

\* dotProduct / (Math.sqrt(normA) * Math.sqrt(normB)) in doubles
Divide(d, na, nb) ==
  FloatDiv(FloatOfInt(d), FloatMul(SqrtTable[na], SqrtTable[nb]))

\* the same, computed once for every result of the loop
DivideTable == [r \in LoopResults |-> Divide(r[1], r[2], r[3])]

\* the number returned, with the operands it was computed from
Quotient(d, na, nb) ==
  [t |-> "quotient", dot |-> d, normA |-> na, normB |-> nb,
   value |-> DivideTable[<<d, na, nb>>]]

\* variant: only a longer first argument is rejected
LengthsDiffer_longerOnly(a, b) == Len(a) > Len(b)

\* embeddingA.length !== embeddingB.length
LengthsDiffer(a, b) == Len(a) # Len(b)

\* variant: both norms must vanish
ZeroNorm_both(normA, normB) == normA = 0 /\ normB = 0

\* normA === 0 || normB === 0
ZeroNorm(normA, normB) == normA = 0 \/ normB = 0

CosineSimilarity(embeddingA, embeddingB) ==
  IF LengthsDiffer(embeddingA, embeddingB) THEN Throw("Error", LengthMessage)
  ELSE LET dotProduct == SumProducts(embeddingA, embeddingB, 1)
           normA == SumProducts(embeddingA, embeddingA, 1)
           normB == SumProducts(embeddingB, embeddingB, 1)
       IN IF ZeroNorm(normA, normB) THEN Return(Num(0))
          ELSE Return(Quotient(dotProduct, normA, normB))

(* --------------------------- input domains ---------------------------- *)
\* an object literal whose undefined members are absent
MakeObj(m) == Obj(SelectSeq(m, LAMBDA e : e.x.t # "undefined"))

\* text arguments: every short text over a letter, the quote and the
\* backslash, and one text of two lines
TextChars == {"a", "\"", "\\"}
TwoLines == <<"h", "i", "\n", "y", "o", "u">>
Texts == {Str(s) : s \in SeqsUpTo(TextChars, MaxTextLen) \cup {TwoLines}}
ModelArgs == {Undef, Str(LargeModel)}

\* provider responses
Statuses == {200, 401}
EmbValues == {Num(0), NegZero, Num(-12)}
Vectors == {Arr(v) : v \in SeqsUpTo(EmbValues, MaxEmbLen)}
Entries ==
  {Obj(<<Member(K_index, Num(0)), Member(K_embedding, v)>>) :
     v \in Vectors}
    \cup {Obj(<<Member(K_index, Num(12)),
                Member(K_embedding, Arr(<<Num(-12)>>))>>)}
LaterEntry ==
  Obj(<<Member(K_index, Num(1)), Member(K_embedding, Arr(<<Num(5)>>))>>)
DataLists ==
  {Undef, Arr(<<>>)} \cup {Arr(<<e>>) : e \in Entries}
    \cup {Arr(<<e, LaterEntry>>) : e \in Entries}
ErrorBlocks ==
  {Undef, Obj(<<>>), Obj(<<Member(K_message, Str(<<>>))>>),
   Obj(<<Member(K_message, Str(<<"k", "e", "y">>))>>)}
ReportedModels == {Undef, Str(LargeModel)}
Usages ==
  {Undef,
   Obj(<<Member(K_prompt_tokens, Num(3)), Member(K_total_tokens, Num(5))>>)}
\* no body, or any combination of result list, model, usage and error block
Bodies ==
  {Undef} \cup
  {MakeObj(<<Member(K_data, d), Member(K_model, m), Member(K_usage, u),
             Member(K_error, e)>>) :
     d \in DataLists, m \in ReportedModels, u \in Usages, e \in ErrorBlocks}

\* FormatEmbedding inputs: every short text over the JSON punctuation, and
\* some longer ones
InputChars ==
  {"{", "}", "[", "]", "\"", ":", ",", "0", "1", "-", "a", " ", "\\"}
LongInputs ==
  {<<"n", "u", "l", "l">>,
   <<"{", "n", "o", "t", " ", "v", "a", "l", "i", "d", "}">>,
   <<"{", "\"", "a", "\"", ":", "1", "}">>,
   <<"{", "\"", "e", "m", "b", "e", "d", "d", "i", "n", "g", "\"", ":",
     "n", "u", "l", "l", "}">>,
   SerializeJSONProperty(EmptySentinel),
   SerializeJSONProperty(InvalidSentinel)}
FormatInputs ==
  {Undef, Null} \cup
  {Str(s) : s \in SeqsUpTo(InputChars, MaxInputLen) \cup LongInputs}


(* --------------------------- state machine ---------------------------- *)
VARIABLES
  pc,        \* "idle", "awaitFetch" (suspended at the await), "done"
  op,        \* the formula being executed
  args,      \* its arguments
  requests,  \* the fetch calls made by this invocation, in order
  response,  \* what the fetch collaborator returned
  record,    \* what generateEmbedding returned to its caller
  outcome    \* what the formula returned or threw

vars == <<pc, op, args, requests, response, record, outcome>>

NoResponse == [status |-> 0, body |-> Undef]

Init ==
  /\ pc = "idle"
  /\ op = "none"
  /\ args = <<>>
  /\ requests = <<>>
  /\ response = NoResponse
  /\ record = Undef
  /\ outcome = Pending

\* variant: the request is sent twice
FetchCalls_twice(text, model) ==
  <<FetchRequest(text, model), FetchRequest(text, model)>>

\* the fetch calls generateEmbedding makes before it suspends
FetchCalls(text, model) == <<FetchRequest(text, model)>>

\* GenerateEmbedding.execute up to the await inside generateEmbedding
CallGenerateEmbedding ==
  /\ pc = "idle"
  /\ \E text \in Texts, model \in ModelArgs :
       /\ args' = <<text, model>>
       /\ requests' = FetchCalls(text, ModelOrDefault(model))
  /\ pc' = "awaitFetch"
  /\ op' = "GenerateEmbedding"
  /\ response' = NoResponse
  /\ record' = Undef
  /\ outcome' = Pending

\* the fetch resolves; generateEmbedding and execute run to completion
FetchReturns ==
  /\ pc = "awaitFetch"
  /\ \E status \in Statuses, body \in Bodies :
       LET r == [status |-> status, body |-> body]
           result == generateEmbedding(args[1], r)
       IN /\ response' = r
          /\ record' = result.val
          /\ outcome' = GenerateEmbeddingResult(result)
  /\ pc' = "done"
  /\ UNCHANGED <<op, args, requests>>

\* the fetch rejects; the rejection propagates through both awaits
FetchRejects ==
  /\ pc = "awaitFetch"
  /\ pc' = "done"
  /\ outcome' = Throw("FetchError", <<>>)
  /\ UNCHANGED <<op, args, requests, response, record>>

\* FormatEmbedding.execute on an input of the caller's
CallFormatEmbedding ==
  /\ pc = "idle"
  /\ \E input \in FormatInputs :
       /\ args' = <<input>>
       /\ outcome' = FormatEmbedding(input)
  /\ pc' = "done"
  /\ op' = "FormatEmbedding"
  /\ UNCHANGED <<requests, response, record>>

\* FormatEmbedding.execute on the string GenerateEmbedding just returned
FormatStored ==
  /\ pc = "done"
  /\ op = "GenerateEmbedding"
  /\ outcome.kind = "return"
  /\ op' = "FormatEmbedding"
  /\ args' = <<outcome.val>>
  /\ outcome' = FormatEmbedding(outcome.val)
  /\ requests' = <<>>
  /\ UNCHANGED <<pc, response, record>>

\* CosineSimilarity.execute
CallCosineSimilarity ==
  /\ pc = "idle"
  /\ \E a \in CosineVectors, b \in CosineVectors :
       /\ args' = <<a, b>>
       /\ outcome' = CosineSimilarity(a, b)
  /\ pc' = "done"
  /\ op' = "CosineSimilarity"
  /\ UNCHANGED <<requests, response, record>>

\* the invocation is over; the pack keeps no state between invocations
Finish ==
  /\ pc = "done"
  /\ pc' = "idle"
  /\ op' = "none"
  /\ args' = <<>>
  /\ requests' = <<>>
  /\ response' = NoResponse
  /\ record' = Undef
  /\ outcome' = Pending

Next ==
  \/ CallGenerateEmbedding
  \/ FetchReturns
  \/ FetchRejects
  \/ CallFormatEmbedding
  \/ FormatStored
  \/ CallCosineSimilarity
  \/ Finish

Spec == Init /\ [][Next]_vars

(* ------------------------- comparing values --------------------------- *)
\* structural equality; numbers compared with Object.is (-0 differs from 0)
RECURSIVE DeepSame(_, _)
DeepSame(x, y) ==
  /\ x.t = y.t
  /\ CASE x.t = "array" ->
            /\ Len(x.v) = Len(y.v)
            /\ \A i \in 1..Len(x.v) : DeepSame(x.v[i], y.v[i])
       [] x.t = "object" ->
            /\ Len(x.v) = Len(y.v)
            /\ \A i \in 1..Len(x.v) :
                 x.v[i].k = y.v[i].k /\ DeepSame(x.v[i].x, y.v[i].x)
       [] x.t = "quotient" -> x = y
       [] OTHER -> SameValue(x, y)

\* structural equality; numbers compared with === (-0 equals 0)
RECURSIVE DeepEqual(_, _)
DeepEqual(x, y) ==
  /\ x.t = y.t
  /\ CASE x.t = "array" ->
            /\ Len(x.v) = Len(y.v)
            /\ \A i \in 1..Len(x.v) : DeepEqual(x.v[i], y.v[i])
       [] x.t = "object" ->
            /\ Len(x.v) = Len(y.v)
            /\ \A i \in 1..Len(x.v) :
                 x.v[i].k = y.v[i].k /\ DeepEqual(x.v[i].x, y.v[i].x)
       [] x.t = "quotient" -> x = y
       [] OTHER -> StrictEq(x, y)

RecordKeys ==
  {K_id, K_input, K_embedding, K_formatted, K_model, K_prompt_tokens,
   K_total_tokens}

\* GenerateEmbedding has finished after the fetch returned a response
Responded == op = "GenerateEmbedding" /\ pc = "done" /\ response.status # 0

\* the response body carries a provider message (an empty one counts as none)
ProviderMessage(body) ==
  IF /\ body.t = "object"
     /\ Get(body, K_error).t = "object"
     /\ Get(Get(body, K_error), K_message).t = "string"
     /\ Len(Get(Get(body, K_error), K_message).v) > 0
    THEN Get(Get(body, K_error), K_message).v
    ELSE FailedMessage

\* the result list of the response body, Undef when the body has none
ResultList(body) == IF body.t = "object" THEN Get(body, K_data) ELSE Undef

(* ------------------------------ claims -------------------------------- *)

\* C1: when the fetch returns a status other than 200, whatever the body
\* (no body at all included), GenerateEmbedding fails and returns no record,
\* and the error carries the provider's error.message when the body has
\* one and the generic 'Failed to generate embedding' message otherwise.
C1_NonOkFails ==
  (Responded /\ response.status # 200) =>
    /\ outcome.kind = "throw"
    /\ record = Undef
    /\ outcome.message = ProviderMessage(response.body)

\* C2: when the fetch returns status 200 and the body's result list is
\* absent or empty, generateEmbedding fails with the 'No embedding returned'
\* error and the entry point returns no serialized record.
C2_EmptyResultFails ==
  (/\ Responded
   /\ response.status = 200
   /\ response.body.t = "object"
   /\ \/ ResultList(response.body).t = "undefined"
      \/ /\ ResultList(response.body).t = "array"
         /\ Len(ResultList(response.body).v) = 0) =>
    /\ outcome = Throw("Error", NoEmbeddingMessage)
    /\ record = Undef

C2_Witness ==
  /\ Responded
  /\ response.status = 200
  /\ ResultList(response.body).t = "array"
  /\ Len(ResultList(response.body).v) = 0
  /\ outcome.kind = "throw"

\* the number a decimal string denotes, -1 if it is not a decimal string
DecimalValue(s) ==
  LET r == ParseNumber(s, 1)
  IN IF r.ok /\ r.pos = Len(s) + 1 THEN r.val.v ELSE 0 - 1

\* C3: when the fetch returns status 200 with a result list of one or more
\* entries, the record is built from the first entry only: id is its index
\* as a string, input is the caller's text, embedding is its vector, model
\* is the model of the response body, formatted is 'Embedding Object', and
\* the token counts are the usage figures, or 0 without a usage block.
C3_RecordFromFirstEntry ==
  (/\ Responded
   /\ response.status = 200
   /\ ResultList(response.body).t = "array"
   /\ Len(ResultList(response.body).v) >= 1) =>
    LET body == response.body
        entry == ResultList(body).v[1]
        usage == Get(body, K_usage)
    IN /\ outcome.kind = "return"
       /\ record.t = "object"
       /\ Len(record.v) = 7
       /\ Get(record, K_id).t = "string"
       /\ DecimalValue(Get(record, K_id).v) = Get(entry, K_index).v
       /\ DeepSame(Get(record, K_input), args[1])
       /\ DeepSame(Get(record, K_embedding), Get(entry, K_embedding))
       /\ DeepSame(Get(record, K_model), Get(body, K_model))
       /\ DeepSame(Get(record, K_formatted), Str(EmbeddingObject))
       /\ \A k \in {K_prompt_tokens, K_total_tokens} :
            DeepSame(Get(record, k),
                     IF usage.t = "object" /\ HasKey(usage, k)
                       THEN Get(usage, k) ELSE Num(0))

C3_Witness ==
  /\ Responded
  /\ response.status = 200
  /\ ResultList(response.body).t = "array"
  /\ Len(ResultList(response.body).v) = 2
  /\ Get(response.body, K_usage).t = "undefined"
  /\ args[2].t = "undefined"
  /\ Get(response.body, K_model).t = "string"
  /\ outcome.kind = "return"
  /\ Get(record, K_id) = Str(<<"1", "2">>)

\* C4: every invocation of GenerateEmbedding makes exactly one fetch call, a
\* POST to the embeddings endpoint whose JSON body is {input: text, model:
\* model} with the model defaulted to 'text-embedding-3-small' when omitted,
\* on every outcome; nothing is decided before that call returns.
C4_ExactlyOneFetch ==
  (op = "GenerateEmbedding" /\ pc \in {"awaitFetch", "done"}) =>
    /\ Len(requests) = 1
    /\ requests[1].method = "POST"
    /\ requests[1].url = EmbeddingsUrl
    /\ requests[1].headers = <<[k |-> "Content-Type", x |-> "application/json"]>>
    /\ requests[1].body.t = "string"
    /\ LET sent == JSONParse(requests[1].body.v)
       IN /\ sent.ok
          /\ sent.val.t = "object"
          /\ Len(sent.val.v) = 2
          /\ DeepSame(Get(sent.val, K_input), args[1])
          /\ DeepSame(Get(sent.val, K_model),
                      IF args[2].t = "undefined" THEN Str(DefaultModel)
                      ELSE args[2])
    /\ pc = "awaitFetch" => (outcome = Pending /\ record = Undef)
    /\ pc = "done" => outcome.kind \in {"return", "throw"}

C4_Witness ==
  /\ Responded
  /\ response.status = 401
  /\ outcome.kind = "throw"
  /\ args[2].t = "undefined"
  /\ Len(requests) = 1

\* FormatEmbedding has finished
Formatted == op = "FormatEmbedding" /\ pc = "done"

\* the text given to FormatEmbedding is present and not empty
NonEmptyInput == args[1].t = "string" /\ Len(args[1].v) > 0

\* C5: FormatEmbedding never raises: for every non-empty input text that is
\* not well-formed JSON it returns the invalid sentinel record, and no
\* input at all makes it end in an error.
C5_FormatterNeverRaises ==
  Formatted =>
    /\ outcome.kind = "return"
    /\ (NonEmptyInput /\ ~JSONParse(args[1].v).ok) =>
         DeepSame(outcome.val, InvalidSentinel)

C5_Witness ==
  /\ Formatted
  /\ args[1] = Str(<<"{", "n", "o", "t", " ", "v", "a", "l", "i", "d", "}">>)
  /\ Get(outcome.val, K_formatted) = Str(InvalidJSON)

\* C6 as stated: for an empty string and for an absent input FormatEmbedding
\* returns the empty sentinel record without an error, and the empty
\* sentinel is returned for no other input.
C6_EmptySentinelOnlyForEmpty ==
  Formatted =>
    /\ ~NonEmptyInput => outcome = Return(EmptySentinel)
    /\ (outcome.kind = "return" /\ DeepSame(outcome.val, EmptySentinel)) =>
         ~NonEmptyInput

\* C6 as amended: for an empty string and for an absent input
\* FormatEmbedding returns the empty sentinel record without an error; for
\* any other input the result equals the empty sentinel only when the input
\* is JSON text that itself spells out that record.
C6_EmptySentinel ==
  Formatted =>
    /\ ~NonEmptyInput => outcome = Return(EmptySentinel)
    /\ (/\ NonEmptyInput
        /\ outcome.kind = "return"
        /\ DeepSame(outcome.val, EmptySentinel)) =>
         /\ Len(args[1].v) >= Len(SerializeJSONProperty(EmptySentinel))
         /\ \E i \in 1..Len(args[1].v) :
              StartsWith(args[1].v, i, QuoteJSONString(NoData), 1)

C6_Witness ==
  /\ Formatted
  /\ args[1] = Str(<<>>)
  /\ outcome = Return(EmptySentinel)

\* the Formatter was fed the string GenerateEmbedding returned
RoundTripped == Formatted /\ record # Undef

RECURSIVE NoNegZero(_)
NoNegZero(x) ==
  CASE x.t = "number" -> ~x.neg0
    [] x.t = "array" -> \A i \in 1..Len(x.v) : NoNegZero(x.v[i])
    [] OTHER -> TRUE

WellShaped(x) ==
  /\ x.t = "object"
  /\ Get(x, K_embedding).t = "array"
  /\ Get(x, K_prompt_tokens).t = "number"
  /\ Get(x, K_total_tokens).t = "number"

\* C8: every record handed back, whether built by generateEmbedding after a
\* 200 response or returned by FormatEmbedding for any input text, has an
\* embedding that is a sequence and numeric prompt_tokens and total_tokens.
C8_RecordInvariant ==
  /\ (Responded /\ record # Undef) => WellShaped(record)
  /\ (Formatted /\ outcome.kind = "return") => WellShaped(outcome.val)

\* CosineSimilarity has finished
Compared == op = "CosineSimilarity" /\ pc = "done"

AllZero(a) == \A i \in 1..Len(a) : a[i] = 0

\* C9: for sequences of different lengths CosineSimilarity fails with the
\* length-mismatch error and returns no number, also when one of them is
\* empty or a zero vector: it neither truncates nor pads, and the length
\* check comes before the zero-norm rule.
C9_LengthMismatchFails ==
  (Compared /\ Len(args[1]) # Len(args[2])) =>
    outcome = Throw("Error", LengthMessage)

C9_Witness ==
  /\ Compared
  /\ Len(args[1]) < Len(args[2])
  /\ AllZero(args[1])
  /\ outcome.kind = "throw"

\* C10: for sequences of equal length, if either one is all zeros (the two
\* empty sequences included) CosineSimilarity returns 0, whichever argument
\* position the zero vector is in.
C10_ZeroNormGivesZero ==
  (/\ Compared
   /\ Len(args[1]) = Len(args[2])
   /\ AllZero(args[1]) \/ AllZero(args[2])) =>
    outcome = Return(Num(0))

C10_Witness ==
  /\ Compared
  /\ Len(args[1]) = Len(args[2])
  /\ ~AllZero(args[1])
  /\ AllZero(args[2])
  /\ outcome = Return(Num(0))

\* reading a double: its sign, and whether its magnitude is at most 1 (a
\* non-zero double has a mantissa of exactly MantissaBits bits)
FloatSign(f) == IF f = FloatZero THEN 0 ELSE f.sign

Sign(d) == IF d = 0 THEN 0 ELSE IF d < 0 THEN 0 - 1 ELSE 1

FloatOne == FloatOfInt(1)

WithinUnit(f) ==
  \/ f = FloatZero
  \/ f.e < FloatOne.e
  \/ f.e = FloatOne.e /\ f.m = FloatOne.m

NonDegenerate ==
  /\ Compared
  /\ Len(args[1]) = Len(args[2])
  /\ ~AllZero(args[1])
  /\ ~AllZero(args[2])

\* C11: for equal-length sequences a and b with both norms non-zero,
\* CosineSimilarity returns the dot product divided by the product of the
\* Euclidean norms, the returned number lies in [-1, 1], the integer sums
\* satisfy dot(a,b)^2 <= (a.a)*(b.b), and the sign of the result is the sign
\* of dot(a,b).
C11_CosineInUnitInterval ==
  NonDegenerate =>
    /\ outcome.kind = "return"
    /\ outcome.val.t = "quotient"
    /\ outcome.val.dot = SumProducts(args[1], args[2], 1)
    /\ outcome.val.normA = SumProducts(args[1], args[1], 1)
    /\ outcome.val.normB = SumProducts(args[2], args[2], 1)
    /\ outcome.val.dot * outcome.val.dot
         <= outcome.val.normA * outcome.val.normB
    /\ FloatSign(outcome.val.value) = Sign(outcome.val.dot)
    /\ WithinUnit(outcome.val.value)

\* C12: for every sequence a that is not the zero vector
\* CosineSimilarity(a, a) is the number 1 (for instance for a = [1, 1]), and
\* for orthogonal non-zero vectors such as [1, 0] and [0, 1] it is 0.
C12_SelfIsOneOrthogonalIsZero ==
  NonDegenerate =>
    /\ outcome.kind = "return"
    /\ outcome.val.t = "quotient"
    /\ args[1] = args[2] => outcome.val.value = FloatOne
    /\ SumProducts(args[1], args[2], 1) = 0 => outcome.val.value = FloatZero

====
